---- MODULE Spec2Model ----
(***************************************************************************)
(* Model of source/js/canvasHeader.js: the animated canvas header of the   *)
(* theme (Point / Vector / Color, getRandomInt, getRandomColor, newGrid,   *)
(* drawGrid, animateGrid and the requestAnimationFrame driving loop).      *)
(*                                                                         *)
(* JavaScript numbers are modelled in fixed point:                         *)
(*   - coordinates (Point, difference Vector) are integers counting        *)
(*     1/Scale of a pixel;                                                 *)
(*   - dimensionless factors (a normalised Vector, pow) are integers       *)
(*     counting 1/Unit;                                                    *)
(*   - the arguments and the result of getRandomInt are numerators over a  *)
(*     stated denominator (100 for colours, since f = randomness / 100).   *)
(* A length (getDistance) is a fraction num / den of a coordinate unit,     *)
(* with den chosen so that it carries at least four significant digits.    *)
(* A division rounds to the nearest representable value, as IEEE does.     *)
(* NaN and undefined are two reserved values outside the numeric range.    *)
(* Math.random() is a number k / RandDen with k in 0 .. RandDen - 1.       *)
(***************************************************************************)
EXTENDS Integers, Sequences, FiniteSets, TLC

VARIABLES
    grid,           \* the grid built by newGrid (line 365), <<>> before it exists
    polygons,       \* what the last drawGrid call filled, in drawing order
    mousePos,       \* closure variable mousePos (line 375)
    lastMouseMove,  \* closure variable lastMouseMove (line 376)
    lastRender,     \* closure variable lastRender (line 377)
    now,            \* the host clock read by Date.now(), in ms
    listening,      \* TRUE once the setTimeout callback bound the listener
    hist,           \* history of the driving loop (ticks, renders, moves)
    call,           \* the last direct call of a function and its inputs
    col             \* a Color object driven through its constructor and setters

vars == <<grid, polygons, mousePos, lastMouseMove, lastRender, now,
          listening, hist, call, col>>

-----------------------------------------------------------------------------
(* Bounds of the model *)

\* coordinate units per pixel
Scale == 50
\* units of a dimensionless factor
Unit == 5000
\* resolution of Math.random(): outcomes are k / RandDen
RandDen == 16
\* random streams tried for one grid construction: seeds 0 .. MaxSeed
MaxSeed == 2
\* operations on one Color object after its construction
MaxColorOps == 1
\* direct calls of animateGrid and drawGrid on one grid
MaxCalls == 3
\* calls of animateGrid with a pointer position before the pointer is gone
MaxDisturb == 1
\* calls of animateGrid with no pointer position after which every node is
\* back at its orgPos, up to rounding
SettleBound == 220
\* Date.now() when the script starts, in ms
StartTime == 1000
\* ms the clock may pass beyond the delay of the listener
MaxExtraMs == 1
\* ticks of the driving loop
MaxTicks == 3
\* mousemove events
MaxMoves == 1

-----------------------------------------------------------------------------
(* Numbers *)

\* NaN (0/0) and undefined (a missing argument), kept apart from every number
NaN == 0 - 2000000001
Undefined == 0 - 2000000002

IsNumber(v) == v # NaN /\ v # Undefined

\* JavaScript's `v || 0` on a number: 0, NaN and undefined are falsy
OrZero(v) == IF v = NaN \/ v = Undefined \/ v = 0 THEN 0 ELSE v

Abs(n) == IF n < 0 THEN -n ELSE n

\* n / d rounded to the nearest integer, ties away from zero (d > 0)
DivRound(n, d) ==
    IF n >= 0 THEN (2 * n + d) \div (2 * d)
    ELSE -((2 * (-n) + d) \div (2 * d))

\* n / d as JavaScript computes it: 0/0 is NaN
Divide(n, d) == IF d = 0 THEN NaN ELSE DivRound(n, d)

\* Math.floor(n / d) for d > 0
Floor(n, d) == n \div d

\* parseInt(n / d, 10) for a number whose decimal notation is plain digits
\* (zero, or magnitude in [1e-6, 1e21)): the fraction is cut off
parseInt(n, d) ==
    IF n = NaN \/ n = Undefined THEN NaN
    ELSE IF n >= 0 THEN n \div d ELSE -((-n) \div d)

RECURSIVE SqrtBits(_, _, _)
\* largest r with r * r <= n, by bisection on [lo, hi)
SqrtBits(n, lo, hi) ==
    IF hi - lo <= 1 THEN lo
    ELSE LET mid == (lo + hi) \div 2
         IN  IF mid * mid <= n THEN SqrtBits(n, mid, hi)
             ELSE SqrtBits(n, lo, mid)

\* Math.sqrt on an integer, rounded down
Sqrt(n) == SqrtBits(n, 0, 46341)

-----------------------------------------------------------------------------
(* limit, Color *)

limitNoMax(value, min, max) ==
    IF value = NaN THEN NaN
    ELSE IF value < min THEN min
    ELSE value

\* lines 22-30; every comparison with NaN is false, so NaN falls through
limit(value, min, max) ==
    IF value = NaN THEN NaN
    ELSE IF value < min THEN min
    ELSE IF value > max THEN max
    ELSE value

ChannelMax == 255

\* the setters of r, g, b (lines 205-222) on the number n / d
setChannel(n, d) == limit(parseInt(n, d), 0, ChannelMax)

\* new Color(r, g, b) (lines 193-202) on the numbers r / d, g / d, b / d:
\* `r || 0`, then the setter
ColorOf(r, g, b, d) ==
    [r |-> setChannel(OrZero(r), d),
     g |-> setChannel(OrZero(g), d),
     b |-> setChannel(OrZero(b), d)]

Color(r, g, b) == ColorOf(r, g, b, 1)

-----------------------------------------------------------------------------
(* getRandomInt, getRandomColor *)

\* the outcomes of Math.random(): k stands for k / RandDen
RandOutcomes == 0 .. (RandDen - 1)

getRandomIntRound(min, max, d, k) ==
    DivRound(k * (max - min + d), d * RandDen) * d + min

\* lines 248-250 on min / d and max / d with Math.random() = k / RandDen;
\* the result is a numerator over d
getRandomInt(min, max, d, k) ==
    Floor(k * (max - min + d), d * RandDen) * d + min

Percent == 100

\* lines 259-269 for a caller that passes a Color, as every caller does;
\* ks holds the three outcomes of Math.random(), in order
getRandomColor(color, randomness, ks) ==
    LET c == color
        p == IF randomness = NaN \/ randomness = Undefined
             THEN Percent ELSE randomness
        lo(v) == v * (Percent - p)
        hi(v) == v * Percent + (ChannelMax - v) * p
    IN  ColorOf(getRandomInt(lo(c.r), hi(c.r), Percent, ks[1]),
                getRandomInt(lo(c.g), hi(c.g), Percent, ks[2]),
                getRandomInt(lo(c.b), hi(c.b), Percent, ks[3]),
                Percent)

\* the tint of drawGrid (lines 318-324): each channel becomes
\* (channel + bc.channel * bco) / (1 + bco), with bco = bco10 / 10
tint(color, bc, bco10) ==
    LET mix(v, w) == setChannel(v * 10 + w * bco10, 10 + bco10)
    IN  [r |-> mix(color.r, bc.r), g |-> mix(color.g, bc.g),
         b |-> mix(color.b, bc.b)]

-----------------------------------------------------------------------------
(* Point, Vector *)

\* arithmetic of numbers that may be NaN
Plus(a, b) == IF a = NaN \/ b = NaN THEN NaN ELSE a + b
Minus(a, b) == IF a = NaN \/ b = NaN THEN NaN ELSE a - b
Times(a, b) == IF a = NaN \/ b = NaN THEN NaN ELSE a * b
\* a * b / d, rounded; the only division by zero the program reaches is 0/0
Ratio(a, b, d) ==
    IF a = NaN \/ b = NaN \/ d = NaN THEN NaN ELSE Divide(a * b, d)

\* a length or coordinate given in pixels
Px(n) == n * Scale

\* lines 39-42
Point(x, y) == [x |-> OrZero(x), y |-> OrZero(y)]

VectorRaw(x, y) == [x |-> x, y |-> y]

\* lines 64-67
Vector(x, y) == [x |-> OrZero(x), y |-> OrZero(y)]

\* Point.prototype.move, lines 44-46
move(point, vector) ==
    Point(Plus(point.x, vector.x), Plus(point.y, vector.y))

fromPointsSwapped(p1, p2) == Vector(Minus(p2.x, p1.x), Minus(p2.y, p1.y))

\* Vector.fromPoints, lines 75-79
fromPoints(p1, p2) == Vector(Minus(p1.x, p2.x), Minus(p1.y, p2.y))

RECURSIVE FineFor(_, _)
\* the largest power of two f, from the one given up to 2^14, for which
\* n * f * f is below 2^31: the square root of n is taken in 1/f
FineFor(n, f) ==
    IF f < 16384 /\ n <= 2147483647 \div (4 * f * f) THEN FineFor(n, 2 * f)
    ELSE f

\* Vector.prototype.getDistance, lines 85-87: the length num / den, in
\* coordinate units, rounded down to 1/den
getDistance(v) ==
    IF v.x = NaN \/ v.y = NaN THEN [num |-> NaN, den |-> 1]
    ELSE LET n == v.x * v.x + v.y * v.y
             f == FineFor(n, 1)
         IN  [num |-> Abs(Sqrt(n * f * f)), den |-> f]

\* x / dist for a coordinate x and a length dist, counted in 1/Unit; 0/0 is
\* NaN
Quotient(x, dist) ==
    IF x = NaN \/ dist.num = NaN THEN NaN
    ELSE Divide(x * dist.den * Unit, dist.num)

\* Vector.prototype.normalized, lines 93-96; the result counts 1/Unit
normalized(v) ==
    LET dist == getDistance(v)
    IN  Vector(Quotient(v.x, dist), Quotient(v.y, dist))

\* Vector.prototype.multiply, lines 110-112, by a vector whose components
\* count 1/wUnit
multiply(v, w, wUnit) ==
    Vector(Ratio(v.x, w.x, wUnit), Ratio(v.y, w.y, wUnit))

\* a vector counted in 1/Unit of a pixel, in coordinate units
toCoord(v) == Vector(Ratio(v.x, Scale, Unit), Ratio(v.y, Scale, Unit))

-----------------------------------------------------------------------------
(* Grid nodes. A node's orgPos and currPos are references to Point objects; *)
(* pts is the node's part of the heap, with two cells: the Points of a node *)
(* are shared with no other node, and at most two of them are live.         *)

OrgPos(node) == node.pts[node.orgPos]
CurrPos(node) == node.pts[node.currPos]

\* the cell a Point created now occupies: not the one orgPos refers to; the
\* Point currPos referred to is garbage once currPos is assigned
FreshCell(node) == IF node.orgPos = 1 THEN 2 ELSE 1

\* the j-th outcome of Math.random() in the stream numbered seed
Rnd(seed, j) == (seed * 5 + j * (2 * seed + 3) + (j \div 11) * 7) % RandDen

\* Math.random() is called this many times for one node of newGrid
DrawsPerNode == 11

\* line 372: gridSize, in coordinate units, for a screen of this availWidth
gridSizeOf(availWidth) == DivRound(160000 * Scale, availWidth + 1800)

\* the settings of line 365-373
Settings(availWidth) ==
    [posRandomness |-> 26,
     startColor |-> Color(80, 90, 250),
     startColorRandomness |-> 10,
     overTimeColorRandomness |-> 5,
     gridSize |-> gridSizeOf(availWidth)]

gridLengthCeil(size, s) ==
    (size * Scale + s.gridSize - 1) \div s.gridSize + 5

\* lines 272 and 275: the length of an array newGrid allocates, for a canvas
\* of this width or height in pixels
gridLength(size, s) == parseInt(size * Scale, s.gridSize) + 5

nodePartsRedFromLeft(lineIndex, nodeIndex, npl, s, seed, acc) ==
    LET at(l, n) == acc[l * npl + n + 1]
        rnd(j) == Rnd(seed, (lineIndex * npl + nodeIndex) * DrawsPerNode + j)
        posRandomness == Vector(s.posRandomness, s.posRandomness)
        p0 == Point(lineIndex * s.gridSize, nodeIndex * s.gridSize)
        p1 == move(p0, Vector(Px(-40), Px(-40)))
        currPos == move(p1, Vector(
            Px(getRandomInt(-posRandomness.x, posRandomness.x, 1, rnd(0))),
            Px(getRandomInt(-posRandomness.y, posRandomness.y, 1, rnd(1)))))
        startColor == getRandomColor(s.startColor, s.startColorRandomness,
                                     <<rnd(2), rnd(3), rnd(4)>>)
        color0 == Color(
            IF nodeIndex >= 1 THEN at(lineIndex, nodeIndex - 1).color.r
            ELSE startColor.r,
            IF lineIndex >= 1 /\ nodeIndex >= 1
            THEN at(lineIndex - 1, nodeIndex - 1).color.g
            ELSE startColor.g,
            IF nodeIndex >= 1 THEN at(lineIndex, nodeIndex - 1).color.b
            ELSE startColor.b)
        color == getRandomColor(color0, OrZero(s.overTimeColorRandomness),
                                <<rnd(5), rnd(6), rnd(7)>>)
    IN  [nominal |-> p1,
         currPos |-> currPos,
         _color |-> color,
         color |-> getRandomColor(color, 0, <<rnd(8), rnd(9), rnd(10)>>)]

\* lines 279-300 and 304: the position and the colours of the node at
\* [lineIndex][nodeIndex]; acc holds the nodes built so far, line after line
nodeParts(lineIndex, nodeIndex, npl, s, seed, acc) ==
    LET at(l, n) == acc[l * npl + n + 1]
        rnd(j) == Rnd(seed, (lineIndex * npl + nodeIndex) * DrawsPerNode + j)
        posRandomness == Vector(s.posRandomness, s.posRandomness)
        p0 == Point(lineIndex * s.gridSize, nodeIndex * s.gridSize)
        p1 == move(p0, Vector(Px(-40), Px(-40)))
        currPos == move(p1, Vector(
            Px(getRandomInt(-posRandomness.x, posRandomness.x, 1, rnd(0))),
            Px(getRandomInt(-posRandomness.y, posRandomness.y, 1, rnd(1)))))
        startColor == getRandomColor(s.startColor, s.startColorRandomness,
                                     <<rnd(2), rnd(3), rnd(4)>>)
        color0 == Color(
            IF lineIndex >= 1 THEN at(lineIndex - 1, nodeIndex).color.r
            ELSE startColor.r,
            IF lineIndex >= 1 /\ nodeIndex >= 1
            THEN at(lineIndex - 1, nodeIndex - 1).color.g
            ELSE startColor.g,
            IF nodeIndex >= 1 THEN at(lineIndex, nodeIndex - 1).color.b
            ELSE startColor.b)
        color == getRandomColor(color0, OrZero(s.overTimeColorRandomness),
                                <<rnd(5), rnd(6), rnd(7)>>)
    IN  [nominal |-> p1,
         currPos |-> currPos,
         _color |-> color,
         color |-> getRandomColor(color, 0, <<rnd(8), rnd(9), rnd(10)>>)]

newNodeNoJitter(lineIndex, nodeIndex, npl, s, seed, acc) ==
    LET q == nodeParts(lineIndex, nodeIndex, npl, s, seed, acc)
    IN  [_color |-> q._color,
         color |-> q.color,
         orgPos |-> 2,
         currPos |-> 1,
         pts |-> <<q.currPos, Point(q.nominal.x, q.nominal.y)>>]

\* lines 302-307: currPos refers to the Point called currPos (cell 1),
\* orgPos to a new Point with its coordinates (cell 2)
newNode(lineIndex, nodeIndex, npl, s, seed, acc) ==
    LET q == nodeParts(lineIndex, nodeIndex, npl, s, seed, acc)
    IN  [_color |-> q._color,
         color |-> q.color,
         orgPos |-> 2,
         currPos |-> 1,
         pts |-> <<q.currPos, Point(q.currPos.x, q.currPos.y)>>]

RECURSIVE newLineNodes(_, _, _, _, _)
\* the inner loop of lines 276-308 for one line; acc holds the nodes built
\* so far, line after line
newLineNodes(lineIndex, npl, s, seed, acc) ==
    IF Len(acc) >= (lineIndex + 1) * npl THEN acc
    ELSE newLineNodes(lineIndex, npl, s, seed,
                      Append(acc, newNode(lineIndex, Len(acc) % npl,
                                          npl, s, seed, acc)))

RECURSIVE newNodes(_, _, _, _, _)
\* the outer loop of lines 274-309, a line at each step; acc holds the
\* nodes built so far
newNodes(total, npl, s, seed, acc) ==
    IF Len(acc) >= total THEN acc
    ELSE newNodes(total, npl, s, seed,
                  newLineNodes(Len(acc) \div npl, npl, s, seed, acc))

\* lines 271-312: grid[lineIndex][nodeIndex], both counted from 0
newGrid(width, height, s, seed) ==
    LET len == gridLength(width, s)
        npl == gridLength(height, s)
        flat == newNodes(len * npl, npl, s, seed, <<>>)
    IN  [lineIndex \in 0 .. (len - 1) |->
            [nodeIndex \in 0 .. (npl - 1) |->
                flat[lineIndex * npl + nodeIndex + 1]]]

\* grid.length and grid[0].length
Lines(g) == Cardinality(DOMAIN g)
NodesPerLine(g) == Cardinality(DOMAIN g[0])

-----------------------------------------------------------------------------
(* animateGrid *)

\* an option that is not given (s.mousePos, s.baseColor)
Absent == [undefined |-> TRUE]

InfluenceRadius == 420
Pull == 30
SmoothWeight == 50
SmoothDen == 51

moveCurrPosInPlace(node, vector) ==
    [node EXCEPT !.pts[node.orgPos] = move(OrgPos(node), vector),
                 !.currPos = node.orgPos]

\* line 351, node.currPos = node.orgPos.move(vector): move returns a new
\* Point
moveCurrPos(node, vector) ==
    [node EXCEPT !.pts[FreshCell(node)] = move(OrgPos(node), vector),
                 !.currPos = FreshCell(node)]

\* (dist / 420)^2 for a length dist, counted in 1/Unit: the quotient is
\* taken in 1/2^14 and squared
squaredRatio(dist) ==
    LET q == DivRound(dist.num * 16384, dist.den * Px(InfluenceRadius))
    IN  DivRound(((q * q) \div 8192) * Unit, 32768)

powOfGrowing(dist) ==
    IF dist.num = NaN THEN NaN
    ELSE IF dist.num < dist.den * Px(InfluenceRadius)
    THEN Unit + squaredRatio(dist) \div 4
    ELSE Unit - squaredRatio(dist)

\* line 348: pow = 1 - (dist / 420)^2, counted in 1/Unit. Floating point
\* keeps the sign of the difference: pow is positive exactly if dist is
\* less than 420, so a positive pow below half of 1/Unit counts as 1/Unit
powOf(dist) ==
    IF dist.num = NaN THEN NaN
    ELSE LET pow == Unit - squaredRatio(dist)
         IN  IF dist.num < dist.den * Px(InfluenceRadius)
             THEN (IF pow < 1 THEN 1 ELSE pow)
             ELSE (IF pow > 0 THEN 0 ELSE pow)

\* lines 351-353: diff.normalized().multiply(new Vector(30, 30))
\* .multiply(new Vector(pow, pow)), counted in 1/Unit of a pixel
pullVector(diff, pow) ==
    multiply(multiply(normalized(diff), Vector(Pull, Pull), 1),
             Vector(pow, pow), Unit)

displaceAtRadius(node, s) ==
    IF s.mousePos # Absent
    THEN LET diff == fromPoints(OrgPos(node), s.mousePos)
             dist == getDistance(diff)
             pow == powOf(dist)
         IN  IF pow # NaN /\ pow >= 0
             THEN moveCurrPos(node, toCoord(pullVector(diff, pow)))
             ELSE node
    ELSE node

\* lines 345-355
displace(node, s) ==
    IF s.mousePos # Absent
    THEN LET diff == fromPoints(OrgPos(node), s.mousePos)
             dist == getDistance(diff)
             pow == powOf(dist)
         IN  IF pow # NaN /\ pow > 0
             THEN moveCurrPos(node, toCoord(pullVector(diff, pow)))
             ELSE node
    ELSE node

smoothNone(node) == node

smoothAway(node) ==
    LET org == OrgPos(node)
        cur == CurrPos(node)
    IN  [node EXCEPT !.pts[node.currPos] =
            [x |-> Ratio(Plus(org.x, Times(cur.x, SmoothWeight + 2)), 1,
                         SmoothDen),
             y |-> Ratio(Plus(org.y, Times(cur.y, SmoothWeight + 2)), 1,
                         SmoothDen)]]

\* lines 357-358: the Point currPos refers to is updated in place
smooth(node) ==
    LET org == OrgPos(node)
        cur == CurrPos(node)
    IN  [node EXCEPT !.pts[node.currPos] =
            [x |-> Ratio(Plus(org.x, Times(cur.x, SmoothWeight)), 1,
                         SmoothDen),
             y |-> Ratio(Plus(org.y, Times(cur.y, SmoothWeight)), 1,
                         SmoothDen)]]

\* the body of the loops of animateGrid, lines 343-358
animateNode(node, s) == smooth(displace(node, s))

animateGridAll(g, s) ==
    [lineIndex \in DOMAIN g |->
        [nodeIndex \in DOMAIN g[lineIndex] |->
            animateNode(g[lineIndex][nodeIndex], s)]]

\* lines 340-361: every node but those of the last line and the last of
\* each line
animateGrid(g, s) ==
    [lineIndex \in DOMAIN g |->
        [nodeIndex \in DOMAIN g[lineIndex] |->
            IF lineIndex < Lines(g) - 1 /\ nodeIndex < NodesPerLine(g) - 1
            THEN animateNode(g[lineIndex][nodeIndex], s)
            ELSE g[lineIndex][nodeIndex]]]

-----------------------------------------------------------------------------
(* drawGrid *)

\* lines 317-324: the colour a cell of this colour is filled with
drawColorOf(color, s, ks) ==
    LET c == getRandomColor(color, 0, ks)
    IN  IF s.baseColor # Absent
        THEN tint(c, s.baseColor, s.baseColorOpacity10)
        ELSE c

\* lines 317-335: the polygon filled for the cell at [lineIndex][nodeIndex];
\* cell names that cell
polygonOf(g, s, lineIndex, nodeIndex, ks) ==
    [cell |-> <<lineIndex, nodeIndex>>,
     points |-> <<CurrPos(g[lineIndex + 1][nodeIndex]),
                  CurrPos(g[lineIndex][nodeIndex]),
                  CurrPos(g[lineIndex][nodeIndex + 1]),
                  CurrPos(g[lineIndex + 1][nodeIndex + 1])>>,
     color |-> drawColorOf(g[lineIndex][nodeIndex].color, s, ks),
     borderColor |-> s.borderColor]

\* lines 314-338: the polygons filled, in order; Math.random() follows the
\* stream numbered seed
drawGrid(g, s, seed) ==
    LET w == NodesPerLine(g) - 1
    IN  [i \in 1 .. ((Lines(g) - 1) * w) |->
            polygonOf(g, s, (i - 1) \div w, (i - 1) % w,
                      <<Rnd(seed, 3 * (i - 1)), Rnd(seed, 3 * (i - 1) + 1),
                        Rnd(seed, 3 * (i - 1) + 2)>>)]

\* the options of lines 400-405; baseColorOpacity 0.4 is 4 tenths
DrawSettings ==
    [baseColor |-> Color(25, 80, 250),
     borderColor |-> Color(18, 31, 45),
     baseColorOpacity10 |-> 4]

-----------------------------------------------------------------------------
(* Values of the variables a specification does not use *)

NoCall == [op |-> "", ch |-> "", args |-> <<>>, before |-> Absent, n |-> 0]
NoHist == [moved |-> FALSE, moves |-> 0, ticks |-> 0, renders |-> 0,
           ticksSinceMove |-> 0, rendersSinceMove |-> 0,
           moveNewer |-> FALSE, pending |-> 0, rest |-> <<>>]

LoopIdle ==
    /\ mousePos = Absent
    /\ lastMouseMove = 0
    /\ lastRender = 0
    /\ now = 0
    /\ listening = FALSE
    /\ hist = NoHist

loopVars == <<mousePos, lastMouseMove, lastRender, now, listening, hist>>
gridVars == <<grid, polygons>>

-----------------------------------------------------------------------------
(* SpecColor: a Color object under its constructor, its setters,            *)
(* getRandomColor and the colour computation of drawGrid                    *)

\* integers given to the constructor and the setters
ChannelInputs == {-300, -1, 0, 128, 255, 256}

\* the randomness given to getRandomColor: the values the program uses,
\* 100 and none
RandomnessInputs == {0, 5, 10, 100, Undefined}

\* three outcomes of Math.random(), the first one being k / RandDen
RandTriple(k) == <<k, (k + 5) % RandDen, (3 * k + 7) % RandDen>>

InitColor ==
    /\ col = Color(Undefined, Undefined, Undefined)
    /\ call = [NoCall EXCEPT !.op = "Color",
                             !.args = <<Undefined, Undefined, Undefined>>]
    /\ grid = <<>>
    /\ polygons = <<>>
    /\ LoopIdle

\* new Color(r, g, b), an argument left out being undefined
ColorNew ==
    \E r, g, b \in ChannelInputs \cup {Undefined} :
        /\ call.op = "Color"
        /\ col' = Color(r, g, b)
        /\ call' = [op |-> "Color", ch |-> "", args |-> <<r, g, b>>,
                    before |-> Absent, n |-> call.n]
        /\ UNCHANGED <<gridVars, loopVars>>

\* col.r = v, col.g = v or col.b = v
ColorSet ==
    \E ch \in {"r", "g", "b"}, v \in ChannelInputs :
        /\ call.n < MaxColorOps
        /\ col' = [col EXCEPT ![ch] = setChannel(v, 1)]
        /\ call' = [op |-> "set", ch |-> ch, args |-> <<v>>,
                    before |-> Absent, n |-> call.n + 1]
        /\ UNCHANGED <<gridVars, loopVars>>

\* col = getRandomColor(col, randomness)
ColorRandom ==
    \E p \in RandomnessInputs, k \in RandOutcomes :
        /\ call.n < MaxColorOps
        /\ col' = getRandomColor(col, p, RandTriple(k))
        /\ call' = [op |-> "getRandomColor", ch |-> "",
                    args |-> <<p>> \o RandTriple(k),
                    before |-> col, n |-> call.n + 1]
        /\ UNCHANGED <<gridVars, loopVars>>

\* col = the colour drawGrid fills a cell of colour col with
ColorDraw ==
    \E k \in RandOutcomes :
        /\ call.n < MaxColorOps
        /\ col' = drawColorOf(col, DrawSettings, RandTriple(k))
        /\ call' = [op |-> "drawColor", ch |-> "", args |-> RandTriple(k),
                    before |-> col, n |-> call.n + 1]
        /\ UNCHANGED <<gridVars, loopVars>>

NextColor == ColorNew \/ ColorSet \/ ColorRandom \/ ColorDraw

SpecColor == InitColor /\ [][NextColor]_vars

-----------------------------------------------------------------------------
(* Claims about Color and getRandomColor *)

\* what the documentation of limit promises for the range of a channel
Clamped(v) == IF v < 0 THEN 0 ELSE IF v > ChannelMax THEN ChannelMax ELSE v

\* C1: every stored channel is an integer in [0,255]; the constructor and
\* the setters store 0 for a value below 0, 255 for a value above 255 and
\* the value itself otherwise (an argument left out counts as 0)
C1_ChannelsClamped ==
    /\ \A ch \in {"r", "g", "b"} : col[ch] \in 0 .. ChannelMax
    /\ call.op = "Color" =>
          /\ col.r = Clamped(OrZero(call.args[1]))
          /\ col.g = Clamped(OrZero(call.args[2]))
          /\ col.b = Clamped(OrZero(call.args[3]))
    /\ call.op = "set" => col[call.ch] = Clamped(call.args[1])

\* a constructor call with a value below 0, one above 255 and one in range
C1_Witness ==
    /\ call.op = "Color"
    /\ call.args = <<-300, 256, 128>>
    /\ col = [r |-> 0, g |-> ChannelMax, b |-> 128]

\* C7: getRandomColor(c, 0) has the channels of c, whatever Math.random()
\* returns
C7_ZeroRandomnessCopies ==
    (call.op = "getRandomColor" /\ call.args[1] = 0) => col = call.before

\* getRandomColor(c, 0) was called on a colour with non-zero channels and
\* Math.random() returned three non-zero numbers
C7_Witness ==
    /\ call.op = "getRandomColor"
    /\ call.args[1] = 0
    /\ call.args[2] > 0 /\ call.args[3] > 0 /\ call.args[4] > 0
    /\ call.before = [r |-> 128, g |-> ChannelMax, b |-> 128]
    /\ col = call.before

-----------------------------------------------------------------------------
(* SpecBuild: one call of newGrid *)

\* canvas.width and canvas.height, in pixels
CanvasWidths == {0, 79, 80, 200, 400}
CanvasHeights == {0, 150, 200}
\* window.screen.availWidth: gridSize is 80, 50 and 40 pixels
AvailWidths == {200, 1400, 2200}

InitBuild ==
    /\ grid = <<>>
    /\ polygons = <<>>
    /\ call = NoCall
    /\ col = Color(0, 0, 0)
    /\ LoopIdle

\* grid = newGrid(grid, {...}), lines 365-373
Build ==
    \E w \in CanvasWidths, h \in CanvasHeights, aw \in AvailWidths,
       seed \in 0 .. MaxSeed :
        /\ call.op = ""
        /\ grid' = newGrid(w, h, Settings(aw), seed)
        /\ call' = [NoCall EXCEPT !.op = "newGrid",
                                  !.args = <<w, h, aw, seed>>]
        /\ UNCHANGED <<polygons, col, loopVars>>

NextBuild == Build

SpecBuild == InitBuild /\ [][NextBuild]_vars

\* the nodes of a grid, as pairs of indices
Nodes(g) == (DOMAIN g) \X (DOMAIN g[0])

\* C3 as stated: the grid has ceil(width/cellSize)+5 lines of
\* ceil(height/cellSize)+5 nodes
C3_CeilDimensions ==
    call.op = "newGrid" =>
        LET gs == gridSizeOf(call.args[3])
            w == call.args[1] * Scale
            h == call.args[2] * Scale
        IN  /\ (Lines(grid) - 6) * gs < w /\ w <= (Lines(grid) - 5) * gs
            /\ (NodesPerLine(grid) - 6) * gs < h
            /\ h <= (NodesPerLine(grid) - 5) * gs

\* C3, amended: the grid has floor(width/cellSize)+5 lines, each of
\* floor(height/cellSize)+5 nodes
C3_FloorDimensions ==
    call.op = "newGrid" =>
        LET gs == gridSizeOf(call.args[3])
            w == call.args[1] * Scale
            h == call.args[2] * Scale
        IN  /\ (Lines(grid) - 5) * gs <= w /\ w < (Lines(grid) - 4) * gs
            /\ (NodesPerLine(grid) - 5) * gs <= h
            /\ h < (NodesPerLine(grid) - 4) * gs
            /\ \A l \in DOMAIN grid :
                  DOMAIN grid[l] = 0 .. (NodesPerLine(grid) - 1)
            /\ DOMAIN grid = 0 .. (Lines(grid) - 1)

\* width 400, height 200, cell size 80: 10 lines of 7 nodes
C3_Witness ==
    /\ call.op = "newGrid"
    /\ call.args[1] = 400 /\ call.args[2] = 200 /\ call.args[3] = 200
    /\ gridSizeOf(call.args[3]) = Px(80)
    /\ Lines(grid) = 10
    /\ NodesPerLine(grid) = 7

\* C8: right after construction every node's orgPos equals its currPos on
\* both axes
C8_RestEqualsCurrent ==
    call.op = "newGrid" =>
        \A ln \in Nodes(grid) :
            LET node == grid[ln[1]][ln[2]]
            IN  /\ OrgPos(node).x = CurrPos(node).x
                /\ OrgPos(node).y = CurrPos(node).y

\* a grid was built in which a node is off its nominal place on both axes
\* (the jitter is not zero) and its orgPos equals its currPos
C8_Witness ==
    /\ call.op = "newGrid"
    /\ \E ln \in Nodes(grid) :
          LET node == grid[ln[1]][ln[2]]
              gs == gridSizeOf(call.args[3])
          IN  /\ CurrPos(node).x # ln[1] * gs - Px(40)
              /\ CurrPos(node).y # ln[2] * gs - Px(40)
              /\ OrgPos(node) = CurrPos(node)

\* a channel w that is a channel v perturbed by p percent, as getRandomColor
\* does: (1 - p/100) * v - 1 < w <= v + p/100 * (255 - v) + 1
Perturbed(w, v, p) ==
    /\ Percent * w > (Percent - p) * v - Percent
    /\ Percent * w <= Percent * v + p * (ChannelMax - v) + Percent

\* the node a channel of the node at ln is borrowed from: red from the
\* previous line, green from the previous line and the previous node, blue
\* from the previous node; <<>> if there is none
Lender(ln, ch) ==
    IF ch = "r" THEN (IF ln[1] >= 1 THEN <<ln[1] - 1, ln[2]>> ELSE <<>>)
    ELSE IF ch = "g"
    THEN (IF ln[1] >= 1 /\ ln[2] >= 1 THEN <<ln[1] - 1, ln[2] - 1>> ELSE <<>>)
    ELSE (IF ln[2] >= 1 THEN <<ln[1], ln[2] - 1>> ELSE <<>>)

\* C16 as stated: each channel of a node's _color is the channel of the
\* node it borrows from, or of the configured startColor if there is none,
\* perturbed by overTimeColorRandomness only
C16_OnlyOverTimeRandomness ==
    call.op = "newGrid" =>
        LET s == Settings(call.args[3])
        IN  \A ln \in Nodes(grid), ch \in {"r", "g", "b"} :
                LET w == grid[ln[1]][ln[2]]._color[ch]
                    from == Lender(ln, ch)
                    v == IF from # <<>> THEN grid[from[1]][from[2]]._color[ch]
                         ELSE s.startColor[ch]
                IN  Perturbed(w, v, s.overTimeColorRandomness)

\* C16, amended: a borrowed channel is perturbed by overTimeColorRandomness
\* only; a channel with no node to borrow from is the channel of the
\* configured startColor perturbed by startColorRandomness and then by
\* overTimeColorRandomness
C16_StartColorRandomisedFirst ==
    call.op = "newGrid" =>
        LET s == Settings(call.args[3])
        IN  \A ln \in Nodes(grid), ch \in {"r", "g", "b"} :
                LET w == grid[ln[1]][ln[2]]._color[ch]
                    from == Lender(ln, ch)
                IN  /\ w \in 0 .. ChannelMax
                    /\ IF from # <<>>
                       THEN Perturbed(w, grid[from[1]][from[2]].color[ch],
                                      s.overTimeColorRandomness)
                       ELSE \E u \in 0 .. ChannelMax :
                              /\ Perturbed(u, s.startColor[ch],
                                           s.startColorRandomness)
                              /\ Perturbed(w, u, s.overTimeColorRandomness)

\* a grid was built whose first node has a red channel farther from the
\* configured startColor than overTimeColorRandomness allows, and in which
\* a node that borrows all three channels differs from the startColor
C16_Witness ==
    /\ call.op = "newGrid"
    /\ ~Perturbed(grid[0][0]._color.r, Settings(call.args[3]).startColor.r,
                  Settings(call.args[3]).overTimeColorRandomness)
    /\ grid[1][1]._color.r # Settings(call.args[3]).startColor.r
    /\ Perturbed(grid[1][1]._color.r, grid[0][1].color.r,
                 Settings(call.args[3]).overTimeColorRandomness)
    /\ grid[0][1].color.r # grid[1][0].color.r

-----------------------------------------------------------------------------
(* SpecGrid: animateGrid and drawGrid called on a grid newGrid built, with  *)
(* any pointer position or none                                             *)

\* the canvas: its size in pixels, the size it is displayed at and where
Canvas == [width |-> 40, height |-> 30,
           clientWidth |-> 80, clientHeight |-> 60,
           left |-> 10, top |-> 5]

\* pointer positions, in canvas pixels: the middle of the canvas, a place
\* more than 420 from some nodes only, a place more than 420 from all
\* nodes, exactly where some node rests, and exactly 420 from there
\* (252^2 + 336^2 = 420^2)
PointerPixels(g) ==
    {<<20, 15>>, <<-120, 100>>, <<-500, 0>>}
        \cup {<<OrgPos(g[1][1]).x \div Scale, OrgPos(g[1][1]).y \div Scale>>}
        \cup {<<OrgPos(g[1][1]).x \div Scale + 252,
                OrgPos(g[1][1]).y \div Scale + 336>>}

PointerInputs(g) == {Point(Px(t[1]), Px(t[2])) : t \in PointerPixels(g)}

\* the grid newGrid builds for the canvas
BuiltGrids ==
    {newGrid(Canvas.width, Canvas.height, Settings(aw), seed) :
        aw \in AvailWidths, seed \in 0 .. MaxSeed}

InitGrid ==
    /\ grid \in BuiltGrids
    /\ polygons = <<>>
    /\ call = NoCall
    /\ col = Color(0, 0, 0)
    /\ LoopIdle

\* animateGrid(grid, {mousePos: p}) or animateGrid(grid, {})
AnimateCall ==
    \E p \in PointerInputs(grid) \cup {Absent} :
        /\ call.n < MaxCalls
        /\ grid' = animateGrid(grid, [mousePos |-> p])
        /\ call' = [op |-> "animateGrid", ch |-> "", args |-> <<p>>,
                    before |-> grid, n |-> call.n + 1]
        /\ UNCHANGED <<polygons, col, loopVars>>

\* drawGrid(grid, {baseColor: ..., borderColor: ..., baseColorOpacity: 0.4})
DrawCall ==
    \E seed \in 0 .. MaxSeed :
        /\ call.n < MaxCalls
        /\ polygons' = drawGrid(grid, DrawSettings, seed)
        /\ call' = [op |-> "drawGrid", ch |-> "", args |-> <<>>,
                    before |-> grid, n |-> call.n + 1]
        /\ UNCHANGED <<grid, col, loopVars>>

NextGrid == AnimateCall \/ DrawCall

SpecGrid == InitGrid /\ [][NextGrid]_vars

\* the nodes animateGrid visits: all but the last line and the last node of
\* each line
Inner(g) ==
    {ln \in Nodes(g) : ln[1] < Lines(g) - 1 /\ ln[2] < NodesPerLine(g) - 1}

\* how far currPos is from orgPos on each axis
OffX(node) == Abs(CurrPos(node).x - OrgPos(node).x)
OffY(node) == Abs(CurrPos(node).y - OrgPos(node).y)

\* an offset the rounding of one smoothing step can leave as it is
WithinRounding(off) == 2 * off <= SmoothDen

\* C4 as stated: animateGrid with no pointer position leaves every node
\* strictly closer to its orgPos
C4_EveryNodeStrictlyCloser ==
    (call.op = "animateGrid" /\ call.args[1] = Absent) =>
        \A ln \in Nodes(grid) :
            LET a == grid[ln[1]][ln[2]]
                b == call.before[ln[1]][ln[2]]
            IN  OffX(a) + OffY(a) < OffX(b) + OffY(b)

\* C4, amended: animateGrid with no pointer position moves no node away
\* from its orgPos; on each axis an offset larger than rounding shrinks, a
\* node at rest stays at rest, and the nodes of the last line and the last
\* of each line stay as they are
C4_CloserUnlessAtRest ==
    (call.op = "animateGrid" /\ call.args[1] = Absent) =>
        \A ln \in Nodes(grid) :
            LET a == grid[ln[1]][ln[2]]
                b == call.before[ln[1]][ln[2]]
            IN  /\ OrgPos(a) = OrgPos(b)
                /\ OffX(a) <= OffX(b) /\ OffY(a) <= OffY(b)
                /\ ~WithinRounding(OffX(b)) => OffX(a) < OffX(b)
                /\ ~WithinRounding(OffY(b)) => OffY(a) < OffY(b)
                /\ OffX(b) = 0 => OffX(a) = 0
                /\ OffY(b) = 0 => OffY(a) = 0
                /\ ln \notin Inner(grid) => a = b

\* animateGrid ran with no pointer position on a grid with a node pulled
\* more than 20 pixels off its orgPos, and a node that was at rest
C4_Witness ==
    /\ call.op = "animateGrid" /\ call.args[1] = Absent
    /\ \E ln \in Inner(grid) :
          /\ OffX(call.before[ln[1]][ln[2]]) > Px(20)
          /\ OffX(grid[ln[1]][ln[2]]) < OffX(call.before[ln[1]][ln[2]])
    /\ \E ln \in Inner(grid) :
          /\ OffX(call.before[ln[1]][ln[2]]) = 0
          /\ OffY(call.before[ln[1]][ln[2]]) = 0

\* C6: animateGrid with the pointer exactly on a node's orgPos gives that
\* node a zero pull vector with no NaN coordinate, and leaves its currPos
\* on its orgPos
C6_PointerOnNode ==
    (call.op = "animateGrid" /\ call.args[1] # Absent) =>
        \A ln \in Inner(grid) :
            LET a == grid[ln[1]][ln[2]]
                b == call.before[ln[1]][ln[2]]
                diff == fromPoints(OrgPos(b), call.args[1])
            IN  OrgPos(b) = call.args[1] =>
                    /\ pullVector(diff, powOf(getDistance(diff))) = Vector(0, 0)
                    /\ CurrPos(a).x # NaN /\ CurrPos(a).y # NaN
                    /\ CurrPos(a) = OrgPos(a)
                    /\ OrgPos(a) = OrgPos(b)

\* animateGrid ran with the pointer on the orgPos of a node that was pulled
\* off it before and does not rest at the origin
C6_Witness ==
    /\ call.op = "animateGrid" /\ call.args[1] # Absent
    /\ \E ln \in Inner(grid) :
          /\ OrgPos(call.before[ln[1]][ln[2]]) = call.args[1]
          /\ OffX(call.before[ln[1]][ln[2]]) > 0
          /\ OrgPos(grid[ln[1]][ln[2]]).x # 0
          /\ OrgPos(grid[ln[1]][ln[2]]).y # 0
          /\ CurrPos(grid[ln[1]][ln[2]]) = OrgPos(grid[ln[1]][ln[2]])

\* the square of the distance between two Points
Dist2(p, q) == (p.x - q.x) * (p.x - q.x) + (p.y - q.y) * (p.y - q.y)

\* a tenth of a pixel: what the fixed-point arithmetic may be off by
Tolerance == Scale \div 10

\* the nodes animateGrid visits whose orgPos was at a distance d from the
\* pointer with 0 < d < 420
Near(g, p) ==
    {ln \in Inner(g) :
        /\ Dist2(OrgPos(g[ln[1]][ln[2]]), p) > 0
        /\ Dist2(OrgPos(g[ln[1]][ln[2]]), p)
              < Px(InfluenceRadius) * Px(InfluenceRadius)}

\* the distance between two Points, as getDistance gives it
Distance(p, q) == getDistance(fromPoints(p, q))

\* how far animateGrid leaves a node from its orgPos when the pointer is at
\* distance dist: 30 * k with k = 1 - (dist/420)^2, times the 50/51 of the
\* smoothing step
PushLength(dist) ==
    DivRound(SmoothWeight * Pull * powOf(dist) * Scale, SmoothDen * Unit)

\* C12 as stated: a node whose orgPos is at a distance d, 0 < d < 420, from
\* the pointer ends closer to the pointer than its orgPos is
C12_PulledTowardPointer ==
    (call.op = "animateGrid" /\ call.args[1] # Absent) =>
        \A ln \in Near(call.before, call.args[1]) :
            LET a == grid[ln[1]][ln[2]]
            IN  Dist2(CurrPos(a), call.args[1]) < Dist2(OrgPos(a), call.args[1])

\* C12, amended: such a node is pushed away from the pointer. Its currPos
\* is off its orgPos in the direction from the pointer to the orgPos, by
\* 30 * k * 50/51 with k = 1 - (d/420)^2, so it is never closer to the
\* pointer than its orgPos is, and farther as soon as the push is more than
\* the arithmetic's rounding
C12_PushedAwayFromPointer ==
    (call.op = "animateGrid" /\ call.args[1] # Absent) =>
        \A ln \in Near(call.before, call.args[1]) :
            LET a == grid[ln[1]][ln[2]]
                p == call.args[1]
                org == OrgPos(a)
                cur == CurrPos(a)
                away == [x |-> org.x - p.x, y |-> org.y - p.y]
                off == [x |-> cur.x - org.x, y |-> cur.y - org.y]
                len == PushLength(Distance(org, p))
            IN  /\ off.x * away.x >= 0 /\ off.y * away.y >= 0
                /\ Dist2(cur, p) >= Dist2(org, p)
                /\ Abs(Sqrt(Dist2(cur, org)) - len) <= Tolerance
                /\ len > Tolerance => Dist2(cur, p) > Dist2(org, p)

\* animateGrid ran with the pointer less than 420 but more than 100 pixels
\* from the orgPos of a node, which ends more than 5 pixels farther from it
C12_Witness ==
    /\ call.op = "animateGrid" /\ call.args[1] # Absent
    /\ \E ln \in Near(call.before, call.args[1]) :
          LET a == grid[ln[1]][ln[2]]
          IN  /\ Dist2(OrgPos(a), call.args[1]) > Px(100) * Px(100)
              /\ Sqrt(Dist2(CurrPos(a), call.args[1]))
                    > Sqrt(Dist2(OrgPos(a), call.args[1])) + Px(5)

\* the nodes animateGrid visits whose orgPos was 420 or more from the pointer
Far(g, p) ==
    {ln \in Inner(g) :
        Dist2(OrgPos(g[ln[1]][ln[2]]), p)
            >= Px(InfluenceRadius) * Px(InfluenceRadius)}

\* C13: a node whose orgPos is 420 or more from the pointer ends, on each
\* axis, at (orgPos + 50 * currPos) / 51 of its positions before the call,
\* which is where animateGrid with no pointer position puts it
C13_FarPointerOnlySmooths ==
    (call.op = "animateGrid" /\ call.args[1] # Absent) =>
        \A ln \in Far(call.before, call.args[1]) :
            LET a == grid[ln[1]][ln[2]]
                b == call.before[ln[1]][ln[2]]
                none == animateGrid(call.before, [mousePos |-> Absent])
            IN  /\ CurrPos(a).x = DivRound(OrgPos(b).x + 50 * CurrPos(b).x, 51)
                /\ CurrPos(a).y = DivRound(OrgPos(b).y + 50 * CurrPos(b).y, 51)
                /\ OrgPos(a) = OrgPos(b)
                /\ CurrPos(a) = CurrPos(none[ln[1]][ln[2]])

\* animateGrid ran with the pointer exactly 420 from the orgPos of a node
\* that was more than 5 pixels off it, and less than 420 from another node,
\* which the call moved
C13_Witness ==
    /\ call.op = "animateGrid" /\ call.args[1] # Absent
    /\ \E ln \in Far(call.before, call.args[1]) :
          /\ Dist2(OrgPos(grid[ln[1]][ln[2]]), call.args[1])
                = Px(InfluenceRadius) * Px(InfluenceRadius)
          /\ OffX(call.before[ln[1]][ln[2]]) > Px(5)
          /\ OffX(grid[ln[1]][ln[2]]) < OffX(call.before[ln[1]][ln[2]])
          /\ OffX(grid[ln[1]][ln[2]]) > Px(5)
    /\ \E ln \in Near(call.before, call.args[1]) :
          OffX(grid[ln[1]][ln[2]]) > Px(5)

\* C14: the nodes of the last line and the last node of each line are never
\* moved, so their currPos is their orgPos in every state; drawGrid fills
\* one polygon for each other node and none for them: the polygon of the
\* node at [l][n] has that node's colour and the corners [l+1][n], [l][n],
\* [l][n+1], [l+1][n+1]
C14_SentinelsNeverMovedNorDrawn ==
    /\ \A ln \in Nodes(grid) \ Inner(grid) :
          CurrPos(grid[ln[1]][ln[2]]) = OrgPos(grid[ln[1]][ln[2]])
    /\ call.op = "animateGrid" =>
          \A ln \in Nodes(grid) \ Inner(grid) :
              grid[ln[1]][ln[2]] = call.before[ln[1]][ln[2]]
    /\ call.op = "drawGrid" =>
          /\ Len(polygons) = (Lines(grid) - 1) * (NodesPerLine(grid) - 1)
          /\ \A i \in DOMAIN polygons : polygons[i].cell \in Inner(grid)
          /\ \A ln \in Inner(grid) :
                Cardinality({i \in DOMAIN polygons : polygons[i].cell = ln}) = 1
          /\ \A i \in DOMAIN polygons :
                LET l == polygons[i].cell[1]
                    n == polygons[i].cell[2]
                IN  /\ polygons[i].points =
                          <<CurrPos(grid[l + 1][n]), CurrPos(grid[l][n]),
                            CurrPos(grid[l][n + 1]), CurrPos(grid[l + 1][n + 1])>>
                    /\ polygons[i].color =
                          tint(grid[l][n].color, DrawSettings.baseColor,
                               DrawSettings.baseColorOpacity10)

\* drawGrid ran after a call of animateGrid that moved the nodes next to
\* the last line by more than 5 pixels
C14_Witness ==
    /\ call.op = "drawGrid"
    /\ Len(polygons) = (Lines(grid) - 1) * (NodesPerLine(grid) - 1)
    /\ \E n \in 0 .. (NodesPerLine(grid) - 2) :
          /\ OffX(grid[Lines(grid) - 2][n]) > Px(5)
          /\ OffX(grid[Lines(grid) - 1][n]) = 0
          /\ \E i \in DOMAIN polygons :
                /\ polygons[i].cell = <<Lines(grid) - 2, n>>
                /\ polygons[i].points[1] = OrgPos(grid[Lines(grid) - 1][n])

\* C18: whatever pointer positions animateGrid was called with, every
\* node's currPos is within 30 pixels of its orgPos
C18_WithinPullOfRest ==
    \A ln \in Nodes(grid) :
        LET node == grid[ln[1]][ln[2]]
        IN  /\ IsNumber(CurrPos(node).x) /\ IsNumber(CurrPos(node).y)
            /\ Dist2(CurrPos(node), OrgPos(node)) <= Px(Pull) * Px(Pull)

\* three calls of animateGrid were made, the last with a pointer position,
\* and a node is more than 28 pixels off its orgPos
C18_Witness ==
    /\ call.op = "animateGrid" /\ call.n = MaxCalls
    /\ call.args[1] # Absent
    /\ \E ln \in Inner(grid) :
          /\ Dist2(CurrPos(grid[ln[1]][ln[2]]), OrgPos(grid[ln[1]][ln[2]]))
                > Px(28) * Px(28)
          /\ Dist2(CurrPos(grid[ln[1]][ln[2]]), OrgPos(grid[ln[1]][ln[2]]))
                <= Px(Pull) * Px(Pull)

-----------------------------------------------------------------------------
(* SpecSettle: animateGrid called with pointer positions, then over and     *)
(* over with none                                                           *)

MaxSettle == SettleBound + 2

\* animateGrid(grid, {mousePos: p}), while the pointer is there
Disturb ==
    \E p \in PointerInputs(grid) :
        /\ call.op \in {"", "disturb"}
        /\ call.n < MaxDisturb
        /\ grid' = animateGrid(grid, [mousePos |-> p])
        /\ call' = [op |-> "disturb", ch |-> "", args |-> <<p>>,
                    before |-> Absent, n |-> call.n + 1]
        /\ UNCHANGED <<polygons, col, loopVars>>

\* animateGrid(grid, {}); n counts these calls, before is the grid the
\* first of them was given
Settle ==
    /\ call.op = "settle" => call.n < MaxSettle
    /\ grid' = animateGrid(grid, [mousePos |-> Absent])
    /\ call' = [op |-> "settle", ch |-> "", args |-> <<>>,
                before |-> IF call.op = "settle" THEN call.before ELSE grid,
                n |-> IF call.op = "settle" THEN call.n + 1 ELSE 1]
    /\ UNCHANGED <<polygons, col, loopVars>>

NextSettle == Disturb \/ Settle

SpecSettle == InitGrid /\ [][NextSettle]_vars

\* C5: after SettleBound calls of animateGrid with no pointer position every
\* node's currPos is within rounding of its orgPos on both axes, and stays
\* there in the calls that follow
C5_SettlesWithinBound ==
    (call.op = "settle" /\ call.n >= SettleBound) =>
        \A ln \in Nodes(grid) :
            /\ WithinRounding(OffX(grid[ln[1]][ln[2]]))
            /\ WithinRounding(OffY(grid[ln[1]][ln[2]]))

\* the calls with no pointer position began with a node more than 20 pixels
\* off its orgPos, and SettleBound of them were made
C5_Witness ==
    /\ call.op = "settle" /\ call.n >= SettleBound
    /\ \E ln \in Inner(grid) :
          /\ OffX(call.before[ln[1]][ln[2]]) > Px(20)
          /\ WithinRounding(OffX(grid[ln[1]][ln[2]]))

-----------------------------------------------------------------------------
(* Spec: the program. newGrid at start, the listener bound after 600 ms,    *)
(* mousemove events, and the requestAnimationFrame callback of draw         *)

ListenerDelay == 600

\* lines 381-387: the pointer position in canvas coordinates
canvasMousePos(event, rect, canvas) ==
    LET topLeft == Point(rect.left, rect.top)
        browsersMousPos == Point(event.clientX, event.clientY)
    IN  Point(Ratio(Px(browsersMousPos.x - topLeft.x), canvas.width,
                    canvas.clientWidth),
              Ratio(Px(browsersMousPos.y - topLeft.y), canvas.height,
                    canvas.clientHeight))

\* canvas.getBoundingClientRect()
Rect == [left |-> Canvas.left, top |-> Canvas.top]

\* mousemove events: those whose position on the canvas is one of
\* PointerPixels
Events(g) ==
    {[clientX |-> Rect.left + t[1] * (Canvas.clientWidth \div Canvas.width),
      clientY |-> Rect.top + t[2] * (Canvas.clientHeight \div Canvas.height)] :
        t \in PointerPixels(g)}

shouldRenderAlsoEqual(moved, rendered) == moved >= rendered

\* line 395
shouldRender(moved, rendered) == moved > rendered

renderStampStale(clock, rendered) == rendered

\* line 407: lastRender = Date.now()
renderStamp(clock, rendered) == clock

requestAnimationFrameDropped(pending) == pending

\* line 394, requestAnimationFrame(callback): one more callback waits for
\* the next display refresh
requestAnimationFrame(pending) == pending + 1

\* the orgPos of every node
RestOf(g) == [ln \in Nodes(g) |-> OrgPos(g[ln[1]][ln[2]])]

initialMousePosAbsent(canvas) == Absent

\* line 375: new Point(canvas.width / 2, canvas.height / 2)
initialMousePos(canvas) ==
    Point(Ratio(Px(canvas.width), 1, 2), Ratio(Px(canvas.height), 1, 2))

\* lines 365-377 and 414: the grid, the pointer in the middle of the canvas,
\* lastMouseMove = Date.now(), lastRender = 0, and draw() has requested
\* the first frame
Init ==
    /\ grid \in BuiltGrids
    /\ polygons = <<>>
    /\ mousePos = initialMousePos(Canvas)
    /\ now = StartTime
    /\ lastMouseMove = now
    /\ lastRender = 0
    /\ listening = FALSE
    /\ hist = [NoHist EXCEPT !.pending = requestAnimationFrame(0),
                             !.rest = RestOf(grid)]
    /\ call = NoCall
    /\ col = Color(0, 0, 0)

\* the clock advances, by 1 ms or by the delay of the listener; it is
\* followed for MaxExtraMs single ms from the start and from the delay
Elapse ==
    \E d \in {1, ListenerDelay} :
        /\ now + d <= StartTime + ListenerDelay + MaxExtraMs
        /\ d = 1 => (now - StartTime) % ListenerDelay < MaxExtraMs
        /\ now' = now + d
        /\ UNCHANGED <<gridVars, mousePos, lastMouseMove, lastRender,
                       listening, hist, call, col>>

\* lines 379-391: the callback of setTimeout(..., 600) binds the listener
BindListener ==
    /\ ~listening
    /\ now >= StartTime + ListenerDelay
    /\ listening' = TRUE
    /\ UNCHANGED <<gridVars, mousePos, lastMouseMove, lastRender, now,
                   hist, call, col>>

\* the variables of the closure the listener and the tick share
Closure == [mousePos |-> mousePos, lastMouseMove |-> lastMouseMove,
            lastRender |-> lastRender]

mousemoveListenerForcesRender(event, c, clock) ==
    [c EXCEPT !.mousePos = canvasMousePos(event, Rect, Canvas),
              !.lastMouseMove = clock,
              !.lastRender = 0]

\* lines 381-389: what the listener assigns when Date.now() is clock
mousemoveListener(event, c, clock) ==
    [c EXCEPT !.mousePos = canvasMousePos(event, Rect, Canvas),
              !.lastMouseMove = clock]

\* lines 380-390: the mousemove listener
MouseMove ==
    \E event \in Events(grid) :
        /\ listening
        /\ hist.moves < MaxMoves
        /\ LET c == mousemoveListener(event, Closure, now)
           IN  /\ mousePos' = c.mousePos
               /\ lastMouseMove' = c.lastMouseMove
               /\ lastRender' = c.lastRender
        /\ hist' = [hist EXCEPT !.moved = TRUE,
                                !.moves = @ + 1,
                                !.ticksSinceMove = 0,
                                !.rendersSinceMove = 0,
                                !.moveNewer = now > lastRender]
        /\ UNCHANGED <<gridVars, now, listening, call, col>>

\* lines 394-411: the requestAnimationFrame callback, which leaves the
\* queue of pending callbacks when it runs and ends with draw(), line 410;
\* Math.random() follows one of the streams when drawGrid runs
Tick ==
    /\ hist.pending >= 1
    /\ hist.ticks < MaxTicks
    /\ IF shouldRender(lastMouseMove, lastRender)
       THEN /\ grid' = animateGrid(grid, [mousePos |-> mousePos])
            /\ \E seed \in 0 .. MaxSeed :
                  polygons' = drawGrid(grid', DrawSettings, seed)
            /\ lastRender' = renderStamp(now, lastRender)
            /\ hist' = [hist EXCEPT !.ticks = @ + 1,
                                    !.renders = @ + 1,
                                    !.ticksSinceMove = @ + 1,
                                    !.rendersSinceMove = @ + 1,
                                    !.pending = requestAnimationFrame(@ - 1)]
       ELSE /\ UNCHANGED <<gridVars, lastRender>>
            /\ hist' = [hist EXCEPT !.ticks = @ + 1,
                                    !.ticksSinceMove = @ + 1,
                                    !.pending = requestAnimationFrame(@ - 1)]
    /\ UNCHANGED <<mousePos, lastMouseMove, now, listening, call, col>>

Next == Elapse \/ BindListener \/ MouseMove \/ Tick

Spec == Init /\ [][Next]_vars

\* C2: every node's orgPos is the one newGrid gave it
C2_RestPositionFixed ==
    \A ln \in Nodes(grid) : OrgPos(grid[ln[1]][ln[2]]) = hist.rest[ln]

\* the pointer moved, two frames were rendered and a node is off its
\* orgPos
C2_Witness ==
    /\ hist.moved /\ hist.renders >= 2
    /\ \E ln \in Inner(grid) : OffX(grid[ln[1]][ln[2]]) > Px(5)
    /\ \A ln \in Nodes(grid) : OrgPos(grid[ln[1]][ln[2]]) = hist.rest[ln]

\* C9 as stated: no tick renders before the pointer has moved
C9_NoRenderBeforeMove == ~hist.moved => hist.renders = 0

\* C9, amended: before the pointer has moved the first tick renders, and
\* no other tick does
C9_OnlyFirstTickRenders ==
    ~hist.moved =>
        /\ hist.renders = (IF hist.ticks >= 1 THEN 1 ELSE 0)
        /\ hist.ticks >= 1 => polygons # <<>>
        /\ hist.ticks = 0 => polygons = <<>>

\* three ticks ran before any mousemove and one of them rendered
C9_Witness ==
    /\ ~hist.moved
    /\ hist.ticks >= 3
    /\ hist.renders = 1
    /\ lastRender >= lastMouseMove

\* C10 as stated: once the pointer has moved every tick renders
C10_EveryTickRendersAfterMove ==
    hist.moved => hist.rendersSinceMove = hist.ticksSinceMove

\* C10, amended: after a mousemove at most one tick renders, the first one,
\* and it does so exactly if the clock has advanced since the last render
C10_OneRenderPerMove ==
    hist.moved =>
        /\ hist.rendersSinceMove <= 1
        /\ hist.ticksSinceMove >= 1 =>
              (hist.rendersSinceMove = 1 <=> hist.moveNewer)

\* two ticks ran since the last mousemove and only one of them rendered
C10_Witness ==
    /\ hist.moved
    /\ hist.moveNewer
    /\ hist.ticksSinceMove >= 2
    /\ hist.rendersSinceMove = 1

\* C11: a tick whose lastMouseMove is greater than lastRender runs
\* animateGrid on the grid with the pointer position, then drawGrid on the
\* animated grid, then stores the clock in lastRender; any other tick
\* leaves the grid, what is drawn and lastRender as they are; either tick
\* requests one next frame, so one callback is pending in every state
C11_TickRendersOrSkips ==
    /\ [](hist.pending = 1)
    /\ [][hist.ticks' = hist.ticks + 1 =>
            /\ hist.pending' = 1
            /\ IF lastMouseMove > lastRender
               THEN /\ grid' = animateGrid(grid, [mousePos |-> mousePos])
                    /\ \E seed \in 0 .. MaxSeed :
                          polygons' = drawGrid(grid', DrawSettings, seed)
                    /\ lastRender' = now
                    /\ hist.renders' = hist.renders + 1
               ELSE /\ grid' = grid
                    /\ polygons' = polygons
                    /\ lastRender' = lastRender
                    /\ hist.renders' = hist.renders]_vars

\* three ticks ran, one that rendered and one that skipped among them, and
\* one callback is pending
C11_Witness ==
    /\ hist.ticks >= 3
    /\ hist.renders >= 1
    /\ hist.renders < hist.ticks
    /\ hist.pending = 1
    /\ lastRender > 0

\* C15: a mousemove event assigns mousePos and lastMouseMove and nothing
\* else: the grid, what is drawn and lastRender are left as they are; only
\* a tick changes the grid; and no step is both a mousemove and a tick
C15_MoveTouchesOnlyPointer ==
    [][/\ hist.moves' = hist.moves + 1 =>
            /\ grid' = grid
            /\ polygons' = polygons
            /\ lastRender' = lastRender
            /\ lastMouseMove' = now
            /\ now' = now
            /\ listening' = listening
            /\ hist.ticks' = hist.ticks
            /\ hist.renders' = hist.renders
            /\ hist.pending' = hist.pending
       /\ (grid' # grid \/ polygons' # polygons) =>
            /\ hist.ticks' = hist.ticks + 1
            /\ hist.moves' = hist.moves
            /\ mousePos' = mousePos
            /\ lastMouseMove' = lastMouseMove]_vars

\* a mousemove came after a frame was rendered: the pointer is off the
\* middle of the canvas, the move is newer than the render, and the grid is
\* the one that was drawn
C15_Witness ==
    /\ hist.moved
    /\ hist.ticksSinceMove = 0
    /\ hist.renders >= 1
    /\ lastRender > 0
    /\ lastMouseMove > lastRender
    /\ mousePos # initialMousePos(Canvas)
    /\ \E ln \in Inner(grid) : OffX(grid[ln[1]][ln[2]]) > 0

\* C17 as stated: before the first mousemove no node is off its orgPos
C17_NoDisplacementBeforeMove ==
    ~hist.moved =>
        \A ln \in Nodes(grid) :
            CurrPos(grid[ln[1]][ln[2]]) = OrgPos(grid[ln[1]][ln[2]])

\* C17, amended: before the first mousemove the pointer position is never
\* absent, it is the middle of the canvas; the animateGrid call of the first
\* tick is given it, and pushes every node it visits whose orgPos is less
\* than 420 from the middle away from the middle, by 30 * k * 50/51
C17_CentreBeforeMove ==
    ~hist.moved =>
        /\ mousePos # Absent
        /\ mousePos.x * 2 = Px(Canvas.width)
        /\ mousePos.y * 2 = Px(Canvas.height)
        /\ hist.renders >= 1 =>
              \A ln \in Near(grid, mousePos) :
                  LET a == grid[ln[1]][ln[2]]
                      len == PushLength(Distance(OrgPos(a), mousePos))
                  IN  /\ Abs(Sqrt(Dist2(CurrPos(a), OrgPos(a))) - len)
                            <= Tolerance
                      /\ len > Tolerance =>
                            /\ CurrPos(a) # OrgPos(a)
                            /\ Dist2(CurrPos(a), mousePos)
                                  > Dist2(OrgPos(a), mousePos)

\* the first tick ran, no mousemove came, and a node is more than 5 pixels
\* off its orgPos
C17_Witness ==
    /\ ~hist.moved
    /\ hist.renders = 1
    /\ mousePos = initialMousePos(Canvas)
    /\ \E ln \in Near(grid, mousePos) :
          Dist2(CurrPos(grid[ln[1]][ln[2]]), OrgPos(grid[ln[1]][ln[2]]))
              > Px(5) * Px(5)

-----------------------------------------------------------------------------
(* SpecLive: the program, with the display refreshing for ever: a frame     *)
(* that was requested is delivered                                          *)

\* a step in which the callback of requestAnimationFrame ran: the steps of
\* Tick are the steps that count a tick, and one is possible exactly when a
\* callback is pending
FrameDelivered ==
    /\ hist.pending >= 1
    /\ hist.ticks < MaxTicks
    /\ \E r \in {0, 1} :
          hist' = [hist EXCEPT !.ticks = @ + 1,
                               !.ticksSinceMove = @ + 1,
                               !.renders = @ + r,
                               !.rendersSinceMove = @ + r]

SpecLive == Init /\ [][Next]_vars /\ WF_hist(FrameDelivered)

\* C19: every mousemove event is followed by a tick that runs animateGrid
\* and drawGrid with the event's pointer position or a later one, also when
\* the event comes in the millisecond of the last render (an event that the
\* ticks the model follows can still answer)
C19_EveryMoveRendered ==
    (hist.moved /\ hist.ticksSinceMove = 0 /\ hist.ticks < MaxTicks)
        ~> (hist.rendersSinceMove >= 1)

\* a mousemove came in the millisecond of the last render, two ticks ran
\* after it and neither rendered
C19_Witness ==
    /\ hist.moved
    /\ lastMouseMove = lastRender
    /\ hist.ticksSinceMove >= 2
    /\ hist.rendersSinceMove = 0

====
